---- MODULE Spec2Model ----
(***************************************************************************)
(* mongohide (src/src/index.ts): the MongoHide command.  run() resolves    *)
(* the collections and the field rules, starts one anonymizeCollection     *)
(* pipeline per collection and awaits them jointly; anonymizeCollection    *)
(* streams a cursor through anonymizeFields into bulk writes of 1000       *)
(* operations; fakeValue / getFakerMethod produce the replacement values.  *)
(*                                                                         *)
(* Strings are sequences of one-character strings, so that trim, split,    *)
(* toLowerCase, includes and === are computed and not assumed.             *)
(***************************************************************************)
EXTENDS Integers, Sequences, FiniteSets, TLC

(***************************************************************************)
(* Bounds of the model.                                                    *)
(***************************************************************************)
\* the full batches a large collection holds
MaxBatches == 1
\* the documents of a large collection beyond its full batches
MaxRem == 1
\* the distinct addresses faker.internet.email can return
NumEmails == 2

\* bulkUpdate.length === 1000
BatchSize == 1000

(***************************************************************************)
(* Strings.                                                                *)
(***************************************************************************)
Upper == <<"A","B","C","D","E","F","G","H","I","J","K","L","M",
           "N","O","P","Q","R","S","T","U","V","W","X","Y","Z">>
Lower == <<"a","b","c","d","e","f","g","h","i","j","k","l","m",
           "n","o","p","q","r","s","t","u","v","w","x","y","z">>

\* String.prototype.toLowerCase, one character
LowerChar(c) ==
  IF \E i \in 1..Len(Upper) : Upper[i] = c
  THEN Lower[CHOOSE i \in 1..Len(Upper) : Upper[i] = c]
  ELSE c

\* String.prototype.toLowerCase
ToLowerCase(s) == [i \in 1..Len(s) |-> LowerChar(s[i])]

\* String.prototype.trim (the white space of the inputs is the blank)
RECURSIVE TrimStart(_)
TrimStart(s) ==
  IF s # <<>> /\ Head(s) = " " THEN TrimStart(Tail(s)) ELSE s

RECURSIVE TrimEnd(_)
TrimEnd(s) ==
  IF s # <<>> /\ s[Len(s)] = " " THEN TrimEnd(SubSeq(s, 1, Len(s) - 1)) ELSE s

Trim(s) == TrimEnd(TrimStart(s))

\* String.prototype.split(sep) for a one-character separator:
\* "".split(",") is [""], "a,".split(",") is ["a", ""]
RECURSIVE SplitFrom(_, _, _, _)
SplitFrom(s, sep, i, cur) ==
  IF i > Len(s) THEN <<cur>>
  ELSE IF s[i] = sep THEN <<cur>> \o SplitFrom(s, sep, i + 1, <<>>)
  ELSE SplitFrom(s, sep, i + 1, Append(cur, s[i]))

Split(s, sep) == SplitFrom(s, sep, 1, <<>>)

\* String.prototype.includes
Includes(s, sub) ==
  \E i \in 1..(Len(s) - Len(sub) + 1) : SubSeq(s, i, i + Len(sub) - 1) = sub

\* Array.prototype.includes on an array of strings
ArrayIncludes(arr, x) == \E i \in 1..Len(arr) : arr[i] = x

\* Array.prototype.map(trim)
MapTrim(arr) == [i \in 1..Len(arr) |-> Trim(arr[i])]

(***************************************************************************)
(* The words the program and the inputs use.                               *)
(***************************************************************************)
W_id == <<"_","i","d">>
W_name == <<"n","a","m","e">>
W_Name == <<"N","a","m","e">>
W_email == <<"e","m","a","i","l">>
W_EMAIL == <<"E","M","A","I","L">>
W_company == <<"c","o","m","p","a","n","y">>
W_group == <<"g","r","o","u","p">>
W_phone == <<"p","h","o","n","e">>
W_address == <<"a","d","d","r","e","s","s">>
W_street == <<"s","t","r","e","e","t">>
W_country == <<"c","o","u","n","t","r","y">>
W_city == <<"c","i","t","y">>
W_state == <<"s","t","a","t","e">>
W_zip == <<"z","i","p">>
W_description == <<"d","e","s","c","r","i","p","t","i","o","n">>
W_date == <<"d","a","t","e">>
W_url == <<"u","r","l">>
W_ip == <<"i","p">>
W_salary == <<"s","a","l","a","r","y">>
W_amount == <<"a","m","o","u","n","t">>
W_infer == <<"i","n","f","e","r">>
W_code == <<"c","o","d","e">>
W_tags == <<"t","a","g","s">>
W_nested == <<"n","e","s","t","e","d">>
W_items == <<"i","t","e","m","s">>
W_string == <<"s","t","r","i","n","g">>
W_numeric == <<"n","u","m","e","r","i","c">>
W_location == <<"l","o","c","a","t","i","o","n">>
W_bogus == <<"b","o","g","u","s">>
W_method == <<"m","e","t","h","o","d">>
W_seed == <<"s","e","e","d">>
W_Bob == <<"B","o","b">>
W_Al == <<"A","l">>

(***************************************************************************)
(* Document values: scalars, arrays, nested documents, and the values the  *)
(* generators return.                                                      *)
(***************************************************************************)
Null == [t |-> "null", v |-> <<>>]
Bool(b) == [t |-> "bool", v |-> IF b THEN <<1>> ELSE <<0>>]
Num(n) == [t |-> "num", v |-> <<n>>]
Str(s) == [t |-> "str", v |-> s]
Arr(es) == [t |-> "arr", v |-> es]
\* fs: the fields in key order, each [k |-> key, v |-> value]
Obj(fs) == [t |-> "obj", v |-> fs]
F(k, v) == [k |-> k, v |-> v]
\* a value returned by provider's generator gen; n tells two returns apart
Fake(provider, gen, n) == [t |-> "fake", v |-> <<provider, gen, n>>]

\* ToBoolean(doc[key])
Truthy(x) ==
  CASE x.t = "null" -> FALSE
    [] x.t = "bool" -> x.v = <<1>>
    [] x.t = "num" -> x.v # <<0>>
    [] x.t = "str" -> x.v # <<>>
    [] OTHER -> TRUE

(***************************************************************************)
(* The field rules: run(), fieldsToAnonymize.                              *)
(***************************************************************************)
\* type Field = { name: string; type: string }
Field(name, type) == [name |-> name, type |-> type]

\* const [name, type] = field.split(":"); type ?? "infer"
ParseField(token) ==
  LET field == ToLowerCase(Trim(token))
      parts == Split(field, ":")
  IN  Field(parts[1], IF Len(parts) >= 2 THEN parts[2] ELSE W_infer)

\* flags.fields.split(",").map(...)
ParseFields(raw) ==
  LET tokens == Split(raw, ",")
  IN  [i \in 1..Len(tokens) |-> ParseField(tokens[i])]

(***************************************************************************)
(* The faker library, as far as getFakerMethod looks into it: the          *)
(* properties of a Faker instance that are modules, with their methods,    *)
(* and one that is a function.  Property names are case sensitive.         *)
(***************************************************************************)
W_person == <<"p","e","r","s","o","n">>
W_fullName == <<"f","u","l","l","N","a","m","e">>
W_internet == <<"i","n","t","e","r","n","e","t">>
W_lorem == <<"l","o","r","e","m">>
W_word == <<"w","o","r","d">>
W_paragraph == <<"p","a","r","a","g","r","a","p","h">>
W_number == <<"n","u","m","b","e","r">>
W_streetAddress == <<"s","t","r","e","e","t","A","d","d","r","e","s","s">>
W_zipCode == <<"z","i","p","C","o","d","e">>
W_past == <<"p","a","s","t">>
W_finance == <<"f","i","n","a","n","c","e">>

FakerModules ==
  { <<W_person, {W_fullName}>>,
    <<W_company, {W_name}>>,
    <<W_internet, {W_email, W_url, W_ip}>>,
    <<W_phone, {W_number}>>,
    <<W_location, {W_streetAddress, W_street, W_country, W_city, W_state, W_zipCode}>>,
    <<W_lorem, {W_paragraph, W_word}>>,
    <<W_date, {W_past}>>,
    <<W_finance, {W_amount}>>,
    <<W_string, {W_numeric}>> }

\* faker.seed is a function, not a module
FakerFunctions == {W_seed}

\* typeof faker[moduleName]
FakerTypeof(moduleName) ==
  IF \E m \in FakerModules : m[1] = moduleName THEN "object"
  ELSE IF moduleName \in FakerFunctions THEN "function"
  ELSE "undefined"

\* typeof fakerModule[methodName] === "function"
FakerHasMethod(moduleName, methodName) ==
  \E m \in FakerModules : m[1] = moduleName /\ methodName \in m[2]

\* the providers: faker, fakerES, fakerPT_BR
Providers == {"faker", "fakerES", "fakerPT_BR"}

\* getFaker(locale), with this.faker still the imported faker
GetFaker(locale) ==
  CASE locale = "es" -> "fakerES"
    [] locale = "pt" -> "fakerPT_BR"
    [] OTHER -> "faker"

(***************************************************************************)
(* enforce-unique: UniqueEnforcer.enforce(generator) returns the first     *)
(* generated value its store does not hold and adds it to the store; it    *)
(* throws when the tries made within maxTime all collide.                  *)
(***************************************************************************)
RECURSIVE UniqueEnforce(_, _)
UniqueEnforce(store, tries) ==
  IF tries = <<>> THEN [thrown |-> TRUE, value |-> 0, store |-> store]
  ELSE IF Head(tries) \notin store
       THEN [thrown |-> FALSE, value |-> Head(tries),
             store |-> store \cup {Head(tries)}]
       ELSE UniqueEnforce(store, Tail(tries))

(***************************************************************************)
(* fakeValue and getFakerMethod.  A result is                              *)
(*   [thrown, value, provider, gen, email]:                                *)
(* thrown is "none" or the error, provider the Faker instance the          *)
(* generator was taken from, gen the <<module, method>> called, email the  *)
(* address when internet.email was called (0 otherwise).                   *)
(***************************************************************************)
Generated(provider, gen, n, options) ==
  [thrown |-> "none", value |-> Fake(provider, gen, n), provider |-> provider,
   gen |-> gen, options |-> options,
   email |-> IF gen = <<W_internet, W_email>> THEN n ELSE 0]

Thrown(error, provider, gen) ==
  [thrown |-> error, value |-> Null, provider |-> provider,
   gen |-> gen, options |-> 0, email |-> 0]

\* string.numeric is called with { length: 10 }
NumericLength == 10

\* getFakerMethod(field): looks the path up in the imported faker, not in this.faker
GetFakerMethod(field) ==
  LET parts == Split(field.type, ".")
      moduleName == parts[1]
      methodName == IF Len(parts) >= 2 THEN parts[2] ELSE <<>>
  IN  IF FakerTypeof(moduleName) # "object"
      THEN Thrown("ConfigurationError", "faker", <<moduleName, methodName>>)
      ELSE IF ~FakerHasMethod(moduleName, methodName)
      THEN Thrown("ConfigurationError", "faker", <<moduleName, methodName>>)
      ELSE Generated("faker", <<moduleName, methodName>>, 0,
                     IF field.type = W_string \o <<".">> \o W_numeric
                     THEN NumericLength ELSE 0)

\* a fakeValue that tests "ip" before "address": a name such as "zip" or
\* "description" gets an IP address
InferGeneratorIpFirst(name) ==
  IF Includes(name, W_name)
  THEN IF Includes(name, W_company) \/ Includes(name, W_group)
       THEN <<W_company, W_name>>
       ELSE <<W_person, W_fullName>>
  ELSE IF Includes(name, W_company) THEN <<W_company, W_name>>
  ELSE IF Includes(name, W_email) THEN <<W_internet, W_email>>
  ELSE IF Includes(name, W_phone) THEN <<W_phone, W_number>>
  ELSE IF Includes(name, W_ip) THEN <<W_internet, W_ip>>
  ELSE IF Includes(name, W_address) THEN <<W_location, W_streetAddress>>
  ELSE IF Includes(name, W_street) THEN <<W_location, W_street>>
  ELSE IF Includes(name, W_country) THEN <<W_location, W_country>>
  ELSE IF Includes(name, W_city) THEN <<W_location, W_city>>
  ELSE IF Includes(name, W_state) THEN <<W_location, W_state>>
  ELSE IF Includes(name, W_zip) THEN <<W_location, W_zipCode>>
  ELSE IF Includes(name, W_description) THEN <<W_lorem, W_paragraph>>
  ELSE IF Includes(name, W_date) THEN <<W_date, W_past>>
  ELSE IF Includes(name, W_url) THEN <<W_internet, W_url>>
  ELSE IF Includes(name, W_salary) \/ Includes(name, W_amount)
       THEN <<W_finance, W_amount>>
  ELSE <<W_lorem, W_word>>

\* the generator fakeValue picks in infer mode, by the first test that succeeds
InferGenerator(name) ==
  IF Includes(name, W_name)
  THEN IF Includes(name, W_company) \/ Includes(name, W_group)
       THEN <<W_company, W_name>>
       ELSE <<W_person, W_fullName>>
  ELSE IF Includes(name, W_company) THEN <<W_company, W_name>>
  ELSE IF Includes(name, W_email) THEN <<W_internet, W_email>>
  ELSE IF Includes(name, W_phone) THEN <<W_phone, W_number>>
  ELSE IF Includes(name, W_address) THEN <<W_location, W_streetAddress>>
  ELSE IF Includes(name, W_street) THEN <<W_location, W_street>>
  ELSE IF Includes(name, W_country) THEN <<W_location, W_country>>
  ELSE IF Includes(name, W_city) THEN <<W_location, W_city>>
  ELSE IF Includes(name, W_state) THEN <<W_location, W_state>>
  ELSE IF Includes(name, W_zip) THEN <<W_location, W_zipCode>>
  ELSE IF Includes(name, W_description) THEN <<W_lorem, W_paragraph>>
  ELSE IF Includes(name, W_date) THEN <<W_date, W_past>>
  ELSE IF Includes(name, W_url) THEN <<W_internet, W_url>>
  ELSE IF Includes(name, W_ip) THEN <<W_internet, W_ip>>
  ELSE IF Includes(name, W_salary) \/ Includes(name, W_amount)
       THEN <<W_finance, W_amount>>
  ELSE <<W_lorem, W_word>>

\* the store of the UniqueEnforcer fakeValue uses: new UniqueEnforcer() at
\* every call
UniqueEnforcerEmail == {}

\* fakeValue(field); thisFaker is this.faker, draw the address
\* faker.internet.email returns if it is called
FakeValue(field, thisFaker, draw) ==
  IF field.type = W_infer
  THEN LET gen == InferGenerator(field.name)
       IN  IF gen = <<W_internet, W_email>>
           THEN LET e == UniqueEnforce(UniqueEnforcerEmail, <<draw>>)
                IN  IF e.thrown
                    THEN Thrown("RetryExhausted", thisFaker, gen)
                    ELSE Generated(thisFaker, gen, e.value, 0)
           ELSE Generated(thisFaker, gen, 0, 0)
  ELSE GetFakerMethod(field)

(***************************************************************************)
(* anonymizeFields.  The walk threads a state                              *)
(*   [calls, thrown, draws]:                                               *)
(* calls are the fakeValue calls made so far, each with the key path of    *)
(* the field it was made for, thrown is "none" or the error that ended the *)
(* walk, draws the addresses faker.internet.email will return next.  A     *)
(* walk returns [doc, st]: the document as it was left, and the state.     *)
(***************************************************************************)
Digits == <<"0","1","2","3","4","5","6","7","8","9">>

\* String(i), the property name of index i
RECURSIVE IndexKey(_)
IndexKey(i) ==
  IF i < 10 THEN <<Digits[i + 1]>> ELSE IndexKey(i \div 10) \o <<Digits[(i % 10) + 1]>>

\* the number of keys for...in enumerates: the fields of a document, the
\* indexes of an array or of a string, nothing for the other values
NumKeys(doc) ==
  IF doc.t \in {"obj", "arr", "str"} THEN Len(doc.v) ELSE 0

\* the i-th key for...in enumerates
KeyAt(doc, i) == IF doc.t = "obj" THEN doc.v[i].k ELSE IndexKey(i - 1)

\* doc[key], for the i-th key
ValueAt(doc, i) ==
  CASE doc.t = "obj" -> doc.v[i].v
    [] doc.t = "arr" -> doc.v[i]
    [] OTHER -> Str(<<doc.v[i]>>)

\* doc[key] = x, for the i-th key of a document or an array
SetAt(doc, i, x) ==
  IF doc.t = "obj"
  THEN [doc EXCEPT !.v[i].v = x]
  ELSE [doc EXCEPT !.v[i] = x]

\* fields.find((field) => field.name === key): the index of the first rule
\* of that name, 0 when there is none
FindField(fields, key) ==
  IF \E i \in 1..Len(fields) : fields[i].name = key
  THEN CHOOSE i \in 1..Len(fields) :
         /\ fields[i].name = key
         /\ \A j \in 1..(i - 1) : fields[j].name # key
  ELSE 0

KeyMatches(fields, key) == FindField(fields, key) # 0

\* a walker that replaces every field under a matching key
ShouldReplaceAlways(val) == TRUE

\* doc[key] ? this.fakeValue(field) : doc[key]
ShouldReplace(val) == Truthy(val)

WalkState(draws) == [calls |-> <<>>, thrown |-> "none", draws |-> draws]

RECURSIVE AnonymizeFieldsAt(_, _, _, _, _, _)
RECURSIVE AnonymizeElements(_, _, _, _, _, _)

\* the body of for (const key in doc), from the i-th key on
AnonymizeFieldsAt(doc, fields, thisFaker, path, st, i) ==
  IF st.thrown # "none" \/ i > NumKeys(doc) THEN [doc |-> doc, st |-> st]
  ELSE
    LET key == KeyAt(doc, i)
        val == ValueAt(doc, i)
        f == FindField(fields, key)
    IN  IF ~Truthy(doc)
        THEN AnonymizeFieldsAt(doc, fields, thisFaker, path, st, i + 1)
        ELSE IF f # 0
        THEN IF ShouldReplace(val)
             THEN LET draw == IF st.draws = <<>> THEN 1 ELSE Head(st.draws)
                      r == FakeValue(fields[f], thisFaker, draw)
                      call == [path |-> Append(path, key), field |-> fields[f],
                               provider |-> r.provider, gen |-> r.gen,
                               options |-> r.options,
                               email |-> r.email, thrown |-> r.thrown]
                      used == r.gen = <<W_internet, W_email>> /\ st.draws # <<>>
                      st1 == [st EXCEPT !.calls = Append(@, call),
                                        !.draws = IF used THEN Tail(@) ELSE @]
                  IN  IF r.thrown # "none"
                      THEN [doc |-> doc, st |-> [st1 EXCEPT !.thrown = r.thrown]]
                      ELSE IF doc.t = "str"
                      \* strict mode: an index of a string primitive is read-only
                      THEN [doc |-> doc, st |-> [st1 EXCEPT !.thrown = "TypeError"]]
                      ELSE AnonymizeFieldsAt(SetAt(doc, i, r.value), fields,
                                             thisFaker, path, st1, i + 1)
             ELSE IF doc.t = "str"
                  THEN [doc |-> doc, st |-> [st EXCEPT !.thrown = "TypeError"]]
                  ELSE AnonymizeFieldsAt(doc, fields, thisFaker, path, st, i + 1)
        ELSE IF val.t = "arr"
        THEN LET r == AnonymizeElements(val, fields, thisFaker,
                                        Append(path, key), st, 1)
             IN  AnonymizeFieldsAt(SetAt(doc, i, r.doc), fields, thisFaker, path,
                                   r.st, i + 1)
        ELSE IF val.t = "obj"
        THEN LET r == AnonymizeFieldsAt(val, fields, thisFaker,
                                        Append(path, key), st, 1)
             IN  AnonymizeFieldsAt(SetAt(doc, i, r.doc), fields, thisFaker, path,
                                   r.st, i + 1)
        ELSE AnonymizeFieldsAt(doc, fields, thisFaker, path, st, i + 1)

\* for (const element of doc[key]) this.anonymizeFields(element, fields)
AnonymizeElements(arr, fields, thisFaker, path, st, j) ==
  IF st.thrown # "none" \/ j > Len(arr.v) THEN [doc |-> arr, st |-> st]
  ELSE
    LET r == AnonymizeFieldsAt(arr.v[j], fields, thisFaker,
                               Append(path, IndexKey(j - 1)), st, 1)
    IN  AnonymizeElements([arr EXCEPT !.v[j] = r.doc], fields, thisFaker, path,
                          r.st, j + 1)

\* anonymizeFields(doc, fields), with this.faker and the addresses to come
AnonymizeFields(doc, fields, thisFaker, draws) ==
  AnonymizeFieldsAt(doc, fields, thisFaker, <<>>, WalkState(draws), 1)

(***************************************************************************)
(* Key paths of a document, to state what a walk did to it.                *)
(***************************************************************************)
RECURSIVE PathsOf(_)
PathsOf(doc) ==
  IF doc.t \in {"obj", "arr"}
  THEN UNION { {<<KeyAt(doc, i)>>}
               \cup { <<KeyAt(doc, i)>> \o q : q \in PathsOf(ValueAt(doc, i)) }
               : i \in 1..NumKeys(doc) }
  ELSE {}

\* the position of key among the keys of doc, 0 when doc has no such key
KeyIndex(doc, key) ==
  IF doc.t \in {"obj", "arr"} /\ \E i \in 1..NumKeys(doc) : KeyAt(doc, i) = key
  THEN CHOOSE i \in 1..NumKeys(doc) : KeyAt(doc, i) = key
  ELSE 0

RECURSIVE HasPath(_, _)
HasPath(doc, path) ==
  \/ path = <<>>
  \/ /\ KeyIndex(doc, Head(path)) # 0
     /\ HasPath(ValueAt(doc, KeyIndex(doc, Head(path))), Tail(path))

RECURSIVE GetPath(_, _)
GetPath(doc, path) ==
  IF path = <<>> THEN doc
  ELSE GetPath(ValueAt(doc, KeyIndex(doc, Head(path))), Tail(path))

\* the path names a field of a document (its parent is a document, not an array)
IsField(doc, path) ==
  /\ path # <<>>
  /\ GetPath(doc, SubSeq(path, 1, Len(path) - 1)).t = "obj"

Last(path) == path[Len(path)]

(***************************************************************************)
(* State.                                                                  *)
(***************************************************************************)
VARIABLES
  \* the walk of one document: the call anonymizeFields(doc, fields) and
  \* what it left
  walkIn, walkOut,
  \* the parsed flags and the database
  flags, db,
  \* run(): where it is, this.faker, collectionsToAnonymize,
  \* fieldsToAnonymize, collectionsProcessed and what this.log has written
  phase, thisFaker, collectionsToAnonymize, fieldsToAnonymize,
  collectionsProcessed, log,
  \* one entry per pipeline (per call of the collectionPromises callback):
  \* the name its collection handle was opened with, where it is, the
  \* documents its cursor has yielded, bulkUpdate, processedCount, the
  \* bulkWrite calls not yet answered, the sizes of the bulkWrite calls
  \* issued, and the error that ended it
  handle, pc, cursorPos, bulkUpdate, processedCount, outstanding, bulkWrites,
  failure,
  \* what the generators were asked: the addresses internet.email returned,
  \* whether one was returned twice, and the <<provider, mode>> of every call
  emailsSeen, emailRepeated, providersUsed

walkVars == <<walkIn, walkOut>>

runVars == <<flags, db, phase, thisFaker, collectionsToAnonymize,
             fieldsToAnonymize, collectionsProcessed, log>>

pipeVars == <<handle, pc, cursorPos, bulkUpdate, processedCount, outstanding,
              bulkWrites, failure>>

genVars == <<emailsSeen, emailRepeated, providersUsed>>

vars == <<walkVars, runVars, pipeVars, genVars>>

(***************************************************************************)
(* The walk of one document: anonymizeFields applied to a document and a   *)
(* rule set drawn from bounded sets.                                       *)
(***************************************************************************)
Scalars ==
  {Null, Num(0), Num(7), Bool(FALSE), Bool(TRUE), Str(<<>>), Str(W_Al)}

WalkKeys == {W_name, W_Name, W_email, W_code}

\* documents of one field
WalkDocs1 == { Obj(<<F(k, x)>>) : k \in WalkKeys, x \in Scalars }

\* the same, nested in a document and in an array of an array field
WalkDocs2 ==
  { Obj(<<F(W_id, Num(1)), F(W_nested, d)>>) : d \in WalkDocs1 }
  \cup { Obj(<<F(W_items, Arr(<<d, Num(0), Arr(<<d>>)>>))>>) : d \in WalkDocs1 }

WalkDocs3 ==
  { \* { _id: 1, name: "Bob", email: "Al", nested: { name: "Bob" } }
    Obj(<<F(W_id, Num(1)), F(W_name, Str(W_Bob)), F(W_email, Str(W_Al)),
          F(W_nested, Obj(<<F(W_name, Str(W_Bob))>>))>>),
    \* { Name: "Bob", EMAIL: "Al", email: "Al" }
    Obj(<<F(W_Name, Str(W_Bob)), F(W_EMAIL, Str(W_Al)), F(W_email, Str(W_Al))>>),
    \* { name: "", email: null, code: 0, nested: { name: false, tags: [] } }
    Obj(<<F(W_name, Str(<<>>)), F(W_email, Null), F(W_code, Num(0)),
          F(W_nested, Obj(<<F(W_name, Bool(FALSE)), F(W_tags, Arr(<<>>))>>))>>),
    \* { items: [ { nested: { items: [ { email: "Al", code: 7 } ] } }, { email: "Bob" } ] }
    Obj(<<F(W_items, Arr(<<
            Obj(<<F(W_nested, Obj(<<F(W_items, Arr(<<
                   Obj(<<F(W_email, Str(W_Al)), F(W_code, Num(7))>>)>>))>>))>>),
            Obj(<<F(W_email, Str(W_Bob))>>)>>))>>),
    \* { name: { nested: { email: "Al", code: 0 } }, code: "Al" }
    Obj(<<F(W_name, Obj(<<F(W_nested,
            Obj(<<F(W_email, Str(W_Al)), F(W_code, Num(0))>>))>>)),
          F(W_code, Str(W_Al))>>),
    \* { tags: ["Al", ""], name: "Bob" }
    Obj(<<F(W_tags, Arr(<<Str(W_Al), Str(<<>>)>>)), F(W_name, Str(W_Bob))>>),
    \* { items: [ [ "Al", 0 ], null ], nested: null }
    Obj(<<F(W_items, Arr(<<Arr(<<Str(W_Al), Num(0)>>), Null>>)),
          F(W_nested, Null)>>),
    \* {}
    Obj(<<>>) }

WalkDocs == WalkDocs1 \cup WalkDocs2 \cup WalkDocs3

\* values of the fields flag
WalkFieldSpecs ==
  { W_name \o <<",", " ">> \o W_email,
    W_Name,
    W_code \o <<":">> \o W_string \o <<".">> \o W_numeric,
    W_code \o <<":">> \o W_bogus \o <<".">> \o W_method,
    W_name \o <<":">> \o W_location \o <<".">> \o W_city \o <<",">> \o W_name,
    W_id \o <<",">> \o W_nested,
    <<"0">> \o <<",">> \o W_email }

Locales == {"en", "es", "pt"}

Absent == [given |-> FALSE, value |-> <<>>]
Given(s) == [given |-> TRUE, value |-> s]

\* no run: the command was not started
NoRun ==
  /\ flags = [fields |-> <<>>, includeCollections |-> Absent,
              excludeCollections |-> Absent, locale |-> "en"]
  /\ db = <<>>
  /\ phase = "exited"
  /\ thisFaker = "faker"
  /\ collectionsToAnonymize = <<>>
  /\ fieldsToAnonymize = <<>>
  /\ collectionsProcessed = 0
  /\ log = <<>>
  /\ handle = <<>>
  /\ pc = <<>>
  /\ cursorPos = <<>>
  /\ bulkUpdate = <<>>
  /\ processedCount = <<>>
  /\ outstanding = <<>>
  /\ bulkWrites = <<>>
  /\ failure = <<>>
  /\ emailsSeen = {}
  /\ emailRepeated = FALSE
  /\ providersUsed = {}

InitWalk ==
  /\ walkIn \in [doc : WalkDocs,
                 fields : {ParseFields(raw) : raw \in WalkFieldSpecs},
                 thisFaker : {GetFaker(l) : l \in {"en", "es"}},
                 draws : [1..2 -> 1..NumEmails]]
  /\ walkOut = [done |-> FALSE, doc |-> Null, st |-> WalkState(<<>>)]
  /\ NoRun

\* this.anonymizeFields(document, fields)
Walk ==
  /\ ~walkOut.done
  /\ LET r == AnonymizeFields(walkIn.doc, walkIn.fields, walkIn.thisFaker,
                              walkIn.draws)
     IN  walkOut' = [done |-> TRUE, doc |-> r.doc, st |-> r.st]
  /\ UNCHANGED <<walkIn, runVars, pipeVars, genVars>>

NextWalk == Walk

SpecWalk == InitWalk /\ [][NextWalk]_vars

(***************************************************************************)
(* Claims about the walk of one document (SpecWalk).                       *)
(***************************************************************************)
\* the key equals the name of a rule after lower-casing both
MatchesIgnoringCase(fields, key) ==
  \E i \in 1..Len(fields) : ToLowerCase(fields[i].name) = ToLowerCase(key)

\* the proper, non-empty prefixes of a path
Prefixes(path) == { SubSeq(path, 1, n) : n \in 1..(Len(path) - 1) }

\* the path lies inside the value of a truthy field whose key matches a rule
\* when case is ignored
InsideMatching(doc, fields, path) ==
  \E q \in Prefixes(path) :
    /\ IsField(doc, q)
    /\ MatchesIgnoringCase(fields, Last(q))
    /\ Truthy(GetPath(doc, q))

\* a null, 0, false or empty-string value
Falsy(x) == x.t \in {"null", "bool", "num", "str"} /\ ~Truthy(x)

\* C2: field matching is case-insensitive: after a walk that returned, every
\* truthy field whose key equals a rule's name after lower-casing both, and
\* that the walk reached, holds a generated value.
C2_CaseInsensitiveMatch ==
  (walkOut.done /\ walkOut.st.thrown = "none") =>
    \A p \in PathsOf(walkIn.doc) :
      ( /\ IsField(walkIn.doc, p)
        /\ MatchesIgnoringCase(walkIn.fields, Last(p))
        /\ Truthy(GetPath(walkIn.doc, p))
        /\ HasPath(walkOut.doc, p) )
      => GetPath(walkOut.doc, p).t = "fake"

\* C3: a value that is null, 0, false or "" and that the walk did not drop
\* with a replaced parent is the same after the walk, whether or not its key
\* matches a rule, and no fakeValue call was made for it.
C3_FalsyUnchanged ==
  walkOut.done =>
    \A p \in PathsOf(walkIn.doc) :
      (Falsy(GetPath(walkIn.doc, p)) /\ HasPath(walkOut.doc, p)) =>
        /\ GetPath(walkOut.doc, p) = GetPath(walkIn.doc, p)
        /\ \A c \in 1..Len(walkOut.st.calls) : walkOut.st.calls[c].path # p

\* a walk that met a falsy field under a key of a rule, next to a field it
\* replaced
C3_Witness ==
  /\ walkOut.done
  /\ Len(walkOut.st.calls) > 0
  /\ \E p \in PathsOf(walkIn.doc) :
       /\ Falsy(GetPath(walkIn.doc, p))
       /\ KeyMatches(walkIn.fields, Last(p))
       /\ HasPath(walkOut.doc, p)
       /\ Len(p) >= 2

\* the path lies inside a value the walk replaced
InsideReplaced(path) ==
  \E q \in Prefixes(path) :
    ~HasPath(walkOut.doc, q) \/ GetPath(walkOut.doc, q).t = "fake"

\* C4: after a walk that returned, every truthy field whose key matches a
\* rule and that is not inside another matching field holds a generated
\* value; every field whose key matches no rule and that is not inside a
\* replaced value keeps its key and, if scalar, its value; arrays that were
\* not replaced keep their length.
C4_NestedReplaced ==
  (walkOut.done /\ walkOut.st.thrown = "none") =>
    \A p \in PathsOf(walkIn.doc) :
      LET x == GetPath(walkIn.doc, p)
      IN  /\ ( /\ IsField(walkIn.doc, p)
               /\ MatchesIgnoringCase(walkIn.fields, Last(p))
               /\ Truthy(x)
               /\ ~InsideMatching(walkIn.doc, walkIn.fields, p) )
             => ( /\ HasPath(walkOut.doc, p)
                  /\ GetPath(walkOut.doc, p).t = "fake" )
          /\ ( /\ IsField(walkIn.doc, p)
               /\ ~MatchesIgnoringCase(walkIn.fields, Last(p))
               /\ ~InsideReplaced(p) )
             => ( /\ HasPath(walkOut.doc, p)
                  /\ x.t \notin {"obj", "arr"} => GetPath(walkOut.doc, p) = x )
          /\ ( /\ x.t = "arr"
               /\ ~InsideReplaced(p)
               /\ HasPath(walkOut.doc, p)
               /\ GetPath(walkOut.doc, p).t # "fake" )
             => ( /\ GetPath(walkOut.doc, p).t = "arr"
                  /\ Len(GetPath(walkOut.doc, p).v) = Len(x.v) )

(***************************************************************************)
(* The database.  A collection is [name, size, shape]: it holds size       *)
(* documents, the i-th with _id i and the fields of shape[i], the shapes   *)
(* repeating in turn.  A cursor yields them in this order.                 *)
(***************************************************************************)
Collection(name, size, shape) == [name |-> name, size |-> size, shape |-> shape]

\* the i-th document collection.find() yields
DocOf(coll, i) ==
  Obj(<<F(W_id, Num(i))>> \o coll.shape[((i - 1) % Len(coll.shape)) + 1])

\* db.collection(name): a name the database does not hold is an empty collection
CollectionNamed(database, name) ==
  IF \E i \in 1..Len(database) : database[i].name = name
  THEN database[CHOOSE i \in 1..Len(database) : database[i].name = name]
  ELSE Collection(name, 0, << <<>> >>)

\* document._id
IdOf(doc) == ValueAt(doc, KeyIndex(doc, W_id))

(***************************************************************************)
(* run(): the collections to anonymize.                                    *)
(***************************************************************************)
\* a flag's string is truthy
FlagSet(flag) == flag.given /\ flag.value # <<>>

\* dbCollections.filter(...).map((collection) => collection.name)
RECURSIVE FilterCollections(_, _)
FilterCollections(database, excluded) ==
  IF database = <<>> THEN <<>>
  ELSE IF FlagSet(excluded)
          /\ ArrayIncludes(MapTrim(Split(excluded.value, ",")), Head(database).name)
       THEN FilterCollections(Tail(database), excluded)
       ELSE <<Head(database).name>> \o FilterCollections(Tail(database), excluded)

\* a selection that applies the exclusion list to the inclusion list too
RECURSIVE WithoutExcluded(_, _)
WithoutExcluded(names, excluded) ==
  IF names = <<>> THEN <<>>
  ELSE IF FlagSet(excluded)
          /\ ArrayIncludes(MapTrim(Split(excluded.value, ",")), Head(names))
       THEN WithoutExcluded(Tail(names), excluded)
       ELSE <<Head(names)>> \o WithoutExcluded(Tail(names), excluded)

CollectionsToAnonymizeExcluding(fl, database) ==
  IF FlagSet(fl.includeCollections)
  THEN WithoutExcluded(MapTrim(Split(fl.includeCollections.value, ",")),
                       fl.excludeCollections)
  ELSE FilterCollections(database, fl.excludeCollections)

\* let collectionsToAnonymize = ...
CollectionsToAnonymize(fl, database) ==
  IF FlagSet(fl.includeCollections)
  THEN MapTrim(Split(fl.includeCollections.value, ","))
  ELSE FilterCollections(database, fl.excludeCollections)

(***************************************************************************)
(* The runs checked: flags and databases.                                  *)
(***************************************************************************)
N_a == <<"a">>
N_b == <<"b">>
N_A == <<"A">>
N_c == <<"c">>

SmallDb ==
  << \* a: { name: "Bob", email: "Al", nested: { email: "Al" } },
     \*    { code: "Al", tags: ["Al"] }
     Collection(N_a, 2,
       << <<F(W_name, Str(W_Bob)), F(W_email, Str(W_Al)),
            F(W_nested, Obj(<<F(W_email, Str(W_Al))>>))>>,
          <<F(W_code, Str(W_Al)), F(W_tags, Arr(<<Str(W_Al)>>))>> >>),
     \* b: { Name: "Bob", email: "Al" }
     Collection(N_b, 1, << <<F(W_Name, Str(W_Bob)), F(W_email, Str(W_Al))>> >>),
     \* A: { name: "", code: 0 }
     Collection(N_A, 1, << <<F(W_name, Str(<<>>)), F(W_code, Num(0))>> >>) >>

\* the sizes around the batch boundaries
LargeSizes ==
  { b * BatchSize + r : b \in 0..MaxBatches, r \in 0..MaxRem }
  \cup { b * BatchSize - 1 : b \in 1..MaxBatches }

\* a: n documents { name: "Bob" }; b: { name: "Bob" }
LargeDb(n) ==
  << Collection(N_a, n, << <<F(W_name, Str(W_Bob))>> >>),
     Collection(N_b, 1, << <<F(W_name, Str(W_Bob))>> >>) >>

FS_NameEmail == W_name \o <<",", " ">> \o W_email
FS_City == W_code \o <<":">> \o W_location \o <<".">> \o W_city
FS_Bogus == W_code \o <<":">> \o W_bogus \o <<".">> \o W_method
FS_Id == W_id
FS_Zero == <<"0", ",">> \o W_name

Flags(fields, include, exclude, locale) ==
  [fields |-> fields, includeCollections |-> include,
   excludeCollections |-> exclude, locale |-> locale]

\* runs that differ in the selection of the collections
SelectionRuns ==
  { [flags |-> Flags(FS_Id, inc, exc, "en"), db |-> SmallDb] :
      inc \in { Absent, Given(<<>>), Given(N_A), Given(N_a \o <<",", " ">> \o N_b),
                Given(N_a \o <<",">> \o N_a), Given(<<" ">> \o N_c) },
      exc \in { Absent, Given(N_a), Given(<<" ">> \o N_A \o <<" ", ",">> \o N_b) } }

\* runs that differ in the rules and the locale
GenerationRuns ==
  { [flags |-> Flags(fs, inc, Absent, l), db |-> SmallDb] :
      fs \in { FS_NameEmail, FS_City, FS_Bogus, FS_Id, FS_Zero },
      inc \in { Given(N_a \o <<",">> \o N_b), Given(N_A) },
      l \in Locales }

\* runs over a collection of a size around the batch boundaries, alone and,
\* for the largest size, beside the pipeline of a second collection
LargeRuns ==
  { [flags |-> Flags(W_name, Given(N_a), Absent, "en"), db |-> LargeDb(n)] :
      n \in LargeSizes }
  \cup { [flags |-> Flags(W_name, Absent, Absent, "en"),
          db |-> LargeDb(MaxBatches * BatchSize + MaxRem)] }

Runs == SelectionRuns \cup GenerationRuns \cup LargeRuns

(***************************************************************************)
(* run() and anonymizeCollection.                                          *)
(***************************************************************************)
Init ==
  /\ \E r \in Runs : flags = r.flags /\ db = r.db
  /\ phase = "parsed"
  /\ thisFaker = "faker"
  /\ collectionsToAnonymize = <<>>
  /\ fieldsToAnonymize = <<>>
  /\ collectionsProcessed = 0
  /\ log = <<>>
  /\ handle = <<>>
  /\ pc = <<>>
  /\ cursorPos = <<>>
  /\ bulkUpdate = <<>>
  /\ processedCount = <<>>
  /\ outstanding = <<>>
  /\ bulkWrites = <<>>
  /\ failure = <<>>
  /\ emailsSeen = {}
  /\ emailRepeated = FALSE
  /\ providersUsed = {}
  /\ walkIn = [doc |-> Null, fields |-> <<>>, thisFaker |-> "faker",
               draws |-> <<>>]
  /\ walkOut = [done |-> TRUE, doc |-> Null, st |-> WalkState(<<>>)]

Pipelines == 1..Len(pc)

\* run() up to await Promise.all: the collections, this.faker, the rules,
\* and one pipeline per collection, each started up to its first await
Start ==
  /\ phase = "parsed"
  /\ LET cs == CollectionsToAnonymize(flags, db)
         each(x) == [i \in 1..Len(cs) |-> x]
     IN  /\ collectionsToAnonymize' = cs
         /\ handle' = cs
         /\ pc' = each("next")
         /\ cursorPos' = each(0)
         /\ bulkUpdate' = each(<<>>)
         /\ processedCount' = each(0)
         /\ outstanding' = each(0)
         /\ bulkWrites' = each(<<>>)
         /\ failure' = each("none")
  /\ thisFaker' = GetFaker(flags.locale)
  /\ fieldsToAnonymize' = ParseFields(flags.fields)
  /\ phase' = "running"
  /\ UNCHANGED <<flags, db, collectionsProcessed, log, walkVars, genVars>>

\* the process is alive: the pipelines go on until it exits
Alive == phase \in {"running", "rejected"}

\* a rejected pipeline rejects Promise.all, and with it run()
PhaseAfterRejection == "rejected"

\* a pipeline that swallows the configuration error and goes on
PropagatesUnlessConfiguration(thrown) ==
  thrown \notin {"none", "ConfigurationError"}

\* the error leaves anonymizeFields, the for await loop and anonymizeCollection
Propagates(thrown) == thrown # "none"

\* a batch flushed one operation late
BatchFullLate(buffer) == Len(buffer) = BatchSize + 1

\* bulkUpdate.length === 1000
BatchFull(buffer) == Len(buffer) = BatchSize

\* if (bulkUpdate.length > 0)
RemainderPending(buffer) == Len(buffer) > 0

\* a bulkWrite that is not awaited: the loop reads on
NoAwaitBulkWrite == "next"

\* await collection.bulkWrite(...): the pipeline waits for the answer
AwaitBulkWrite == "flush"

\* filter: { _id: document._id }, update: { $set: document }, built after
\* anonymizeFields(document, fields)
UpdateOne(before, after) == [filter |-> IdOf(after), set |-> after]

\* the number of internet.email calls the walk of doc makes
EmailCalls(doc, fields, provider) ==
  LET calls == AnonymizeFields(doc, fields, provider, <<>>).st.calls
  IN  Cardinality({ c \in 1..Len(calls) : calls[c].gen = <<W_internet, W_email>> })

\* the addresses of the calls, in call order
RECURSIVE EmailsOf(_)
EmailsOf(calls) ==
  IF calls = <<>> THEN <<>>
  ELSE IF Head(calls).email # 0
       THEN <<Head(calls).email>> \o EmailsOf(Tail(calls))
       ELSE EmailsOf(Tail(calls))

\* one of the addresses repeats an earlier one, or one of seen
RECURSIVE Repeats(_, _)
Repeats(seen, emails) ==
  /\ emails # <<>>
  /\ \/ Head(emails) \in seen
     \/ Repeats(seen \cup {Head(emails)}, Tail(emails))

\* the provider a call used and the mode of its rule
CallMode(call) ==
  <<call.provider, IF call.field.type = W_infer THEN "infer" ELSE "explicit">>

RecordCalls(calls) ==
  /\ emailsSeen' = emailsSeen \cup { EmailsOf(calls)[i] : i \in 1..Len(EmailsOf(calls)) }
  /\ emailRepeated' = (emailRepeated \/ Repeats(emailsSeen, EmailsOf(calls)))
  /\ providersUsed' = providersUsed \cup
       { CallMode(calls[c]) : c \in { c \in 1..Len(calls) : calls[c].thrown = "none" } }

\* the cursor of pipeline p yields its next document: one turn of the
\* for await loop
ReadDocument(p) ==
  /\ Alive
  /\ pc[p] = "next"
  /\ LET coll == CollectionNamed(db, handle[p])
     IN  /\ cursorPos[p] < coll.size
         /\ LET doc == DocOf(coll, cursorPos[p] + 1)
            IN  \E draws \in [1..EmailCalls(doc, fieldsToAnonymize, thisFaker)
                                -> 1..NumEmails] :
                  LET r == AnonymizeFields(doc, fieldsToAnonymize, thisFaker, draws)
                      buffer == Append(bulkUpdate[p], UpdateOne(doc, r.doc))
                  IN  /\ cursorPos' = [cursorPos EXCEPT ![p] = @ + 1]
                      /\ RecordCalls(r.st.calls)
                      /\ IF Propagates(r.st.thrown)
                         THEN /\ pc' = [pc EXCEPT ![p] = "failed"]
                              /\ failure' = [failure EXCEPT ![p] = r.st.thrown]
                              /\ phase' = PhaseAfterRejection
                              /\ UNCHANGED <<bulkUpdate, processedCount,
                                             outstanding, bulkWrites>>
                         ELSE /\ bulkUpdate' = [bulkUpdate EXCEPT ![p] = buffer]
                              /\ processedCount' = [processedCount EXCEPT ![p] = @ + 1]
                              /\ IF BatchFull(buffer)
                                 THEN /\ outstanding' = [outstanding EXCEPT ![p] = @ + 1]
                                      /\ bulkWrites' = [bulkWrites EXCEPT
                                                          ![p] = Append(@, Len(buffer))]
                                      /\ pc' = [pc EXCEPT ![p] = AwaitBulkWrite]
                                 ELSE UNCHANGED <<outstanding, bulkWrites, pc>>
                              /\ UNCHANGED <<failure, phase>>
  /\ UNCHANGED <<flags, db, thisFaker, collectionsToAnonymize, fieldsToAnonymize,
                 collectionsProcessed, log, handle, walkVars>>

Min(a, b) == IF a <= b THEN a ELSE b

\* the cursor of pipeline p holds its next documents already fetched: the
\* for await loop runs on them, up to a full batch, with no step of another
\* pipeline in between.  (The documents are ones whose walk draws no address
\* and throws nothing; ReadDocument covers the others one by one.)
ReadBuffered(p) ==
  /\ Alive
  /\ pc[p] = "next"
  /\ bulkUpdate[p] = <<>>
  /\ LET coll == CollectionNamed(db, handle[p])
         k == Min(BatchSize, coll.size - cursorPos[p])
         walks == [i \in 1..k |->
                     AnonymizeFields(DocOf(coll, cursorPos[p] + i),
                                     fieldsToAnonymize, thisFaker, <<>>)]
         buffer == [i \in 1..k |->
                      UpdateOne(DocOf(coll, cursorPos[p] + i), walks[i].doc)]
     IN  /\ k >= 2
         /\ { i \in 1..k : walks[i].st.thrown # "none"
                              \/ EmailsOf(walks[i].st.calls) # <<>> } = {}
         /\ cursorPos' = [cursorPos EXCEPT ![p] = @ + k]
         /\ providersUsed' = providersUsed \cup
              { u \in Providers \X {"infer", "explicit"} :
                  \E i \in 1..k : \E c \in 1..Len(walks[i].st.calls) :
                    u = CallMode(walks[i].st.calls[c]) }
         /\ bulkUpdate' = [bulkUpdate EXCEPT ![p] = buffer]
         /\ processedCount' = [processedCount EXCEPT ![p] = @ + k]
         /\ IF BatchFull(buffer)
            THEN /\ outstanding' = [outstanding EXCEPT ![p] = @ + 1]
                 /\ bulkWrites' = [bulkWrites EXCEPT ![p] = Append(@, Len(buffer))]
                 /\ pc' = [pc EXCEPT ![p] = AwaitBulkWrite]
            ELSE UNCHANGED <<outstanding, bulkWrites, pc>>
  /\ UNCHANGED <<runVars, handle, failure, emailsSeen, emailRepeated, walkVars>>

\* the cursor of pipeline p is exhausted: the loop ends, the remainder is
\* written or the count returned
CursorExhausted(p) ==
  /\ Alive
  /\ pc[p] = "next"
  /\ cursorPos[p] = CollectionNamed(db, handle[p]).size
  /\ IF RemainderPending(bulkUpdate[p])
     THEN /\ outstanding' = [outstanding EXCEPT ![p] = @ + 1]
          /\ bulkWrites' = [bulkWrites EXCEPT ![p] = Append(@, Len(bulkUpdate[p]))]
          /\ pc' = [pc EXCEPT ![p] = "final"]
     ELSE /\ pc' = [pc EXCEPT ![p] = "returned"]
          /\ UNCHANGED <<outstanding, bulkWrites>>
  /\ UNCHANGED <<runVars, handle, cursorPos, bulkUpdate, processedCount, failure,
                 walkVars, genVars>>

\* the database answers a bulkWrite of pipeline p
BulkWriteDone(p) ==
  /\ Alive
  /\ outstanding[p] > 0
  /\ outstanding' = [outstanding EXCEPT ![p] = @ - 1]
  /\ CASE pc[p] = "flush" ->
            /\ bulkUpdate' = [bulkUpdate EXCEPT ![p] = <<>>]
            /\ pc' = [pc EXCEPT ![p] = "next"]
       [] pc[p] = "final" ->
            /\ pc' = [pc EXCEPT ![p] = "returned"]
            /\ UNCHANGED bulkUpdate
       [] OTHER -> UNCHANGED <<bulkUpdate, pc>>
  /\ UNCHANGED <<runVars, handle, cursorPos, processedCount, bulkWrites, failure,
                 walkVars, genVars>>

\* a bulkWrite of pipeline p fails: the await throws
BulkWriteFailed(p) ==
  /\ Alive
  /\ outstanding[p] > 0
  /\ pc[p] \in {"flush", "final"}
  /\ outstanding' = [outstanding EXCEPT ![p] = @ - 1]
  /\ pc' = [pc EXCEPT ![p] = "failed"]
  /\ failure' = [failure EXCEPT ![p] = "TransportError"]
  /\ phase' = PhaseAfterRejection
  /\ UNCHANGED <<flags, db, thisFaker, collectionsToAnonymize, fieldsToAnonymize,
                 collectionsProcessed, log, handle, cursorPos, bulkUpdate,
                 processedCount, bulkWrites, walkVars, genVars>>

LogHidden(name, count) ==
  [msg |-> "Data hidden completed for collection", name |-> name,
   n |-> count, of |-> 0]
LogProgress(n, of) ==
  [msg |-> "Collections processed", name |-> <<>>, n |-> n, of |-> of]
LogCompleted == [msg |-> "Data hidden completed.", name |-> <<>>, n |-> 0, of |-> 0]
LogElapsed == [msg |-> "Time elapsed", name |-> <<>>, n |-> 0, of |-> 0]

\* anonymizeCollection of pipeline p has returned: the rest of the callback
CollectionCompleted(p) ==
  /\ Alive
  /\ pc[p] = "returned"
  /\ collectionsProcessed' = collectionsProcessed + 1
  /\ log' = log \o << LogHidden(handle[p], processedCount[p]),
                      LogProgress(collectionsProcessed + 1,
                                  Len(collectionsToAnonymize)) >>
  /\ pc' = [pc EXCEPT ![p] = "done"]
  /\ UNCHANGED <<flags, db, phase, thisFaker, collectionsToAnonymize,
                 fieldsToAnonymize, handle, cursorPos, bulkUpdate, processedCount,
                 outstanding, bulkWrites, failure, walkVars, genVars>>

\* a run() that awaits the first pipeline only (Promise.race)
FinishOnFirst ==
  /\ phase = "running"
  /\ \E p \in Pipelines : pc[p] = "done"
  /\ log' = log \o <<LogCompleted, LogElapsed>>
  /\ phase' = "exited"
  /\ UNCHANGED <<flags, db, thisFaker, collectionsToAnonymize, fieldsToAnonymize,
                 collectionsProcessed, pipeVars, walkVars, genVars>>

\* Promise.all has resolved: the closing messages, client.close(), this.exit()
Finish ==
  /\ phase = "running"
  /\ \A p \in Pipelines : pc[p] = "done"
  /\ log' = log \o <<LogCompleted, LogElapsed>>
  /\ phase' = "exited"
  /\ UNCHANGED <<flags, db, thisFaker, collectionsToAnonymize, fieldsToAnonymize,
                 collectionsProcessed, pipeVars, walkVars, genVars>>

\* run() has thrown: the process ends, whatever the other pipelines were doing
Abort ==
  /\ phase = "rejected"
  /\ phase' = "exited"
  /\ UNCHANGED <<flags, db, thisFaker, collectionsToAnonymize, fieldsToAnonymize,
                 collectionsProcessed, log, pipeVars, walkVars, genVars>>

Next ==
  \/ Start
  \/ \E p \in Pipelines : ReadDocument(p)
  \/ \E p \in Pipelines : ReadBuffered(p)
  \/ \E p \in Pipelines : CursorExhausted(p)
  \/ \E p \in Pipelines : BulkWriteDone(p)
  \/ \E p \in Pipelines : BulkWriteFailed(p)
  \/ \E p \in Pipelines : CollectionCompleted(p)
  \/ Finish
  \/ Abort

Spec == Init /\ [][Next]_vars

(***************************************************************************)
(* Claims about a run (Spec).                                              *)
(***************************************************************************)
SizeOf(p) == CollectionNamed(db, handle[p]).size

\* C1: a pipeline whose cursor yields N documents issues ceil(N/1000) bulk
\* writes, all but the last of 1000 operations, the last of N mod 1000 when
\* that is not 0, none of them empty, and returns N.
C1_BatchCounts ==
  \A p \in Pipelines :
    LET w == bulkWrites[p]
        N == SizeOf(p)
    IN  /\ \A i \in 1..Len(w) : w[i] > 0
        /\ \A i \in 1..(Len(w) - 1) : w[i] = BatchSize
        /\ pc[p] \in {"returned", "done"} =>
             /\ processedCount[p] = N
             /\ Len(w) = (N + BatchSize - 1) \div BatchSize
             /\ N % BatchSize # 0 => w[Len(w)] = N % BatchSize
             /\ (N > 0 /\ N % BatchSize = 0) => w[Len(w)] = BatchSize
             /\ N = BatchSize => w = <<BatchSize>>
             /\ N = BatchSize + 1 => w = <<BatchSize, 1>>

\* a pipeline over 1001 documents has returned after two bulk writes, its
\* count logged
C1_Witness ==
  \E p \in Pipelines :
    /\ pc[p] = "done"
    /\ SizeOf(p) = BatchSize + 1
    /\ bulkWrites[p] = <<BatchSize, 1>>
    /\ \E i \in 1..Len(log) : log[i] = LogHidden(handle[p], BatchSize + 1)

\* C5: no two internet.email calls of a run return the same address.
C5_EmailsDistinct == ~emailRepeated

\* the rules hold an explicit generator path with an unknown module or method
InvalidPath(fields) ==
  \E i \in 1..Len(fields) :
    /\ fields[i].type # W_infer
    /\ GetFakerMethod(fields[i]).thrown = "ConfigurationError"

RaisesConfigurationError(doc) ==
  AnonymizeFields(doc, fieldsToAnonymize, thisFaker, <<>>).st.thrown
    = "ConfigurationError"

NamesOf(list) == { Trim(Split(list, ",")[i]) : i \in 1..Len(Split(list, ",")) }

DbNames == { db[i].name : i \in 1..Len(db) }

PipelinesOn(name) == Cardinality({ p \in Pipelines : handle[p] = name })

\* C7: with an inclusion list the collections processed are its trimmed
\* names, otherwise the database's collections whose name is in no trimmed
\* name of the exclusion list; one pipeline is started for each of them and
\* for no other collection.
C7_CollectionsProcessed ==
  phase # "parsed" =>
    LET selected ==
          IF flags.includeCollections.given
          THEN NamesOf(flags.includeCollections.value)
          ELSE IF flags.excludeCollections.given
               THEN DbNames \ NamesOf(flags.excludeCollections.value)
               ELSE DbNames
    IN  /\ \A c \in selected : PipelinesOn(c) = 1
        /\ \A p \in Pipelines : handle[p] \in selected

\* C7, amended: with a non-empty inclusion list one pipeline is started for
\* each entry of the list, in list order, on the trimmed name of the entry
\* (a name listed twice gets two pipelines; the exclusion list and the
\* database's collections are ignored); otherwise one pipeline for each
\* collection of the database whose name is in no trimmed name of the
\* exclusion list, and no other.
C7_PipelinePerEntry ==
  phase # "parsed" =>
    IF flags.includeCollections.given /\ flags.includeCollections.value # <<>>
    THEN LET entries == Split(flags.includeCollections.value, ",")
         IN  /\ Len(handle) = Len(entries)
             /\ \A i \in 1..Len(entries) : handle[i] = Trim(entries[i])
    ELSE LET excluded == IF flags.excludeCollections.given
                         THEN NamesOf(flags.excludeCollections.value) ELSE {}
         IN  /\ \A c \in DbNames \ excluded : PipelinesOn(c) = 1
             /\ \A p \in Pipelines : handle[p] \in DbNames \ excluded

\* a run with an inclusion list that names a collection twice and an
\* exclusion list that names it too has started two pipelines on it
C7_Witness ==
  /\ phase = "running"
  /\ flags.excludeCollections.given
  /\ \E c \in NamesOf(flags.excludeCollections.value) : PipelinesOn(c) = 2

\* the provider of the locale selected at startup
SelectedProvider ==
  CASE flags.locale = "es" -> "fakerES"
    [] flags.locale = "pt" -> "fakerPT_BR"
    [] OTHER -> "faker"

\* C8: every generation call of a run, in infer and in explicit mode, uses
\* the provider of the selected locale, which does not change during the run.
C8_SelectedProvider ==
  phase # "parsed" =>
    /\ thisFaker = SelectedProvider
    /\ \A u \in providersUsed : u[1] = SelectedProvider

\* the _id the i-th document of pipeline p had when the cursor yielded it
SourceId(p, i) == IdOf(DocOf(CollectionNamed(db, handle[p]), i))

RECURSIVE Sum(_)
Sum(seq) == IF seq = <<>> THEN 0 ELSE Head(seq) + Sum(Tail(seq))

\* C9: every update operation in a batch has for filter the _id its document
\* had when the cursor yielded it, and every document yielded has
\* contributed exactly one update operation.
C9_FilterTargetsSource ==
  \A p \in Pipelines :
    /\ \A k \in 1..Len(bulkUpdate[p]) :
         bulkUpdate[p][k].filter
           = SourceId(p, processedCount[p] - Len(bulkUpdate[p]) + k)
    /\ failure[p] = "none" =>
         Sum(bulkWrites[p]) + (IF pc[p] = "next" THEN Len(bulkUpdate[p]) ELSE 0)
           = cursorPos[p]

\* C10: in every step, no pipeline has more than one bulk write outstanding
\* or more than 1000 operations pending, and a pipeline with a bulk write
\* outstanding reads no document.
C10_ReadFlushSequential ==
  [][ \A p \in Pipelines :
        /\ outstanding[p] <= 1 /\ outstanding'[p] <= 1
        /\ Len(bulkUpdate[p]) <= BatchSize /\ Len(bulkUpdate'[p]) <= BatchSize
        /\ outstanding[p] > 0 =>
             /\ cursorPos'[p] = cursorPos[p]
             /\ processedCount'[p] = processedCount[p] ]_vars

\* a pipeline waits for the write of a full batch while another pipeline,
\* which has read its documents, waits for its own
C10_Witness ==
  \E p, q \in Pipelines :
    /\ p # q
    /\ pc[p] = "flush" /\ outstanding[p] = 1 /\ Len(bulkUpdate[p]) = BatchSize
    /\ pc[q] = "final" /\ outstanding[q] = 1 /\ cursorPos[q] > 0

(***************************************************************************)
(* The rules of a run and their generators: run() resolves the field list  *)
(* of the flags, drawn from a bounded set, and fakeValue is called for the *)
(* rules in turn.  walkOut.st.calls holds the calls made.                  *)
(***************************************************************************)
\* the words fakeValue looks for in a rule's name
Keywords ==
  { W_name, W_company, W_group, W_email, W_phone, W_address, W_street,
    W_country, W_city, W_state, W_zip, W_description, W_date, W_url, W_ip,
    W_salary, W_amount }

W_user == <<"u","s","e","r">>

\* field lists of one rule, named by one word, two words, or "username"
NameSpecs ==
  Keywords \cup { k1 \o k2 : k1, k2 \in Keywords }
    \cup { W_code, W_user \o W_name, W_user \o <<"_">> \o W_ip }

\* field lists that differ in their separators, spaces and case
TokenSpecs ==
  { <<"a">>, <<"a",":">>, <<":","b">>, <<"a",":","b">>,
    <<"a",":","b",":","c">>, <<"a",":",":","b">>,
    <<"A",":","B",":","C">>, <<" ","a"," ",":"," ","b"," ">>,
    <<"a",":">> \o W_infer,
    <<"a",",","a">>, <<"a",":","b",",","a">>, <<"a",",",",","b">>,
    <<"a",":","b",":","c",","," ">> \o W_Name,
    W_code \o <<":">> \o W_string \o <<".">> \o W_numeric \o <<":","x">>,
    W_name \o <<","," ">> \o W_EMAIL \o <<",">> \o W_name }

FieldSpecs == NameSpecs \cup TokenSpecs

InitFields ==
  /\ flags \in [fields : FieldSpecs, includeCollections : {Absent},
                excludeCollections : {Absent}, locale : Locales]
  /\ db = <<>>
  /\ phase = "parsed"
  /\ thisFaker = "faker"
  /\ collectionsToAnonymize = <<>>
  /\ fieldsToAnonymize = <<>>
  /\ collectionsProcessed = 0
  /\ log = <<>>
  /\ handle = <<>>
  /\ pc = <<>>
  /\ cursorPos = <<>>
  /\ bulkUpdate = <<>>
  /\ processedCount = <<>>
  /\ outstanding = <<>>
  /\ bulkWrites = <<>>
  /\ failure = <<>>
  /\ emailsSeen = {}
  /\ emailRepeated = FALSE
  /\ providersUsed = {}
  /\ walkIn = [doc |-> Null, fields |-> <<>>, thisFaker |-> "faker",
               draws |-> <<>>]
  /\ walkOut = [done |-> FALSE, doc |-> Null, st |-> WalkState(<<>>)]

\* this.faker = this.getFaker(flags.locale); const fieldsToAnonymize = ...
ResolveFields ==
  /\ phase = "parsed"
  /\ thisFaker' = GetFaker(flags.locale)
  /\ fieldsToAnonymize' = ParseFields(flags.fields)
  /\ phase' = "resolved"
  /\ UNCHANGED <<flags, db, collectionsToAnonymize, collectionsProcessed, log,
                 pipeVars, walkVars, genVars>>

\* this.fakeValue(field), for the next rule; an error ends the calls
FakeValueCall ==
  /\ phase = "resolved"
  /\ walkOut.st.thrown = "none"
  /\ Len(walkOut.st.calls) < Len(fieldsToAnonymize)
  /\ \E draw \in 1..NumEmails :
       LET field == fieldsToAnonymize[Len(walkOut.st.calls) + 1]
           r == FakeValue(field, thisFaker, draw)
           call == [path |-> <<field.name>>, field |-> field,
                    provider |-> r.provider, gen |-> r.gen,
                    options |-> r.options, email |-> r.email,
                    thrown |-> r.thrown]
       IN  walkOut' = [done |-> TRUE, doc |-> r.value,
                       st |-> [walkOut.st EXCEPT !.calls = Append(@, call),
                                                 !.thrown = r.thrown]]
  /\ UNCHANGED <<walkIn, runVars, pipeVars, genVars>>

NextFields ==
  \/ ResolveFields
  \/ FakeValueCall

SpecFields == InitFields /\ [][NextFields]_vars

(***************************************************************************)
(* Claims about the rules and their generators (SpecFields).               *)
(***************************************************************************)
\* the position of the first ":" of a string, 0 when it has none
FirstColon(str) ==
  IF \E i \in 1..Len(str) : str[i] = ":"
  THEN CHOOSE i \in 1..Len(str) :
         str[i] = ":" /\ \A j \in 1..(i - 1) : str[j] # ":"
  ELSE 0

\* the rule split on the first ":" only
SplitOnFirstColon(token) ==
  LET t == ToLowerCase(Trim(token))
      i == FirstColon(t)
  IN  IF i = 0 THEN [name |-> t, type |-> W_infer]
      ELSE [name |-> SubSeq(t, 1, i - 1), type |-> SubSeq(t, i + 1, Len(t))]

\* C11: the rules are the comma-delimited tokens in token order, duplicates
\* kept, each trimmed, lower-cased and split on its first ":" only: the name
\* is the text before it and the generator path all the text after it, and
\* a token without ":" is in infer mode.
C11_SplitOnFirstColon ==
  phase = "resolved" =>
    LET tokens == Split(flags.fields, ",")
    IN  /\ Len(fieldsToAnonymize) = Len(tokens)
        /\ \A i \in 1..Len(tokens) :
             fieldsToAnonymize[i] = SplitOnFirstColon(tokens[i])

\* the tests on a rule's name in their order: all the words of all and, when
\* any is not empty, one of its words; with the generator of each
Priority ==
  << [all |-> {W_name}, any |-> {W_company, W_group}, gen |-> <<W_company, W_name>>],
     [all |-> {W_name}, any |-> {}, gen |-> <<W_person, W_fullName>>],
     [all |-> {W_company}, any |-> {}, gen |-> <<W_company, W_name>>],
     [all |-> {W_email}, any |-> {}, gen |-> <<W_internet, W_email>>],
     [all |-> {W_phone}, any |-> {}, gen |-> <<W_phone, W_number>>],
     [all |-> {W_address}, any |-> {}, gen |-> <<W_location, W_streetAddress>>],
     [all |-> {W_street}, any |-> {}, gen |-> <<W_location, W_street>>],
     [all |-> {W_country}, any |-> {}, gen |-> <<W_location, W_country>>],
     [all |-> {W_city}, any |-> {}, gen |-> <<W_location, W_city>>],
     [all |-> {W_state}, any |-> {}, gen |-> <<W_location, W_state>>],
     [all |-> {W_zip}, any |-> {}, gen |-> <<W_location, W_zipCode>>],
     [all |-> {W_description}, any |-> {}, gen |-> <<W_lorem, W_paragraph>>],
     [all |-> {W_date}, any |-> {}, gen |-> <<W_date, W_past>>],
     [all |-> {W_url}, any |-> {}, gen |-> <<W_internet, W_url>>],
     [all |-> {W_ip}, any |-> {}, gen |-> <<W_internet, W_ip>>],
     [all |-> {}, any |-> {W_salary, W_amount}, gen |-> <<W_finance, W_amount>>],
     [all |-> {}, any |-> {}, gen |-> <<W_lorem, W_word>>] >>

PriorityTest(entry, name) ==
  /\ \A k \in entry.all : Includes(name, k)
  /\ entry.any = {} \/ \E k \in entry.any : Includes(name, k)

\* the first test of the order that succeeds on the name
FirstSucceeding(name) ==
  CHOOSE i \in 1..Len(Priority) :
    /\ PriorityTest(Priority[i], name)
    /\ \A j \in 1..(i - 1) : ~PriorityTest(Priority[j], name)

\* C12: every fakeValue call in infer mode uses the one generator of the
\* first test that succeeds on the rule's name, in the fixed order name with
\* company or group, name, company, email, phone, address, street, country,
\* city, state, zip, description, date, url, ip, salary or amount, else a
\* lorem word: "description" and "zip" get no IP address, "username" gets a
\* person's name.
C12_InferPriorityOrder ==
  \A c \in 1..Len(walkOut.st.calls) :
    LET call == walkOut.st.calls[c]
    IN  call.field.type = W_infer =>
          /\ call.gen = Priority[FirstSucceeding(call.field.name)].gen
          /\ call.field.name \in {W_description, W_zip}
               => call.gen # <<W_internet, W_ip>>
          /\ call.field.name = W_user \o W_name
               => call.gen = <<W_person, W_fullName>>

\* fakeValue was called in infer mode for a name that holds "ip" and a word
\* tested before it, and took the generator of that word
C12_Witness ==
  /\ phase = "resolved"
  /\ \E c \in 1..Len(walkOut.st.calls) :
       LET call == walkOut.st.calls[c]
       IN  /\ call.field.type = W_infer
           /\ call.thrown = "none"
           /\ Includes(call.field.name, W_ip)
           /\ Includes(call.field.name, W_date)
           /\ call.gen = <<W_date, W_past>>

(***************************************************************************)
(* Claims about the messages of a run (Spec).                              *)
(***************************************************************************)
\* the positions of the log that hold a message of the kind
LogIndexes(msg) == { i \in 1..Len(log) : log[i].msg = msg }

\* the per-collection messages and the counter messages, in log order
RECURSIVE LogOf(_, _)
LogOf(msg, i) ==
  IF i > Len(log) THEN <<>>
  ELSE IF log[i].msg = msg THEN <<log[i]>> \o LogOf(msg, i + 1)
  ELSE LogOf(msg, i + 1)

\* C13: run() starts one pipeline per selected collection, all at once, and
\* reports completion only after all of them have completed: the overall
\* completion message and the elapsed time come once, last, after the
\* per-collection message of every pipeline; each pipeline's message comes
\* exactly once, with its collection's name and processed count; and the
\* counter of the messages counts 1, 2, ... N, each value once, in
\* increasing order.
C13_CompletionAfterAll ==
  LET N == Len(collectionsToAnonymize)
      hidden == LogOf("Data hidden completed for collection", 1)
      progress == LogOf("Collections processed", 1)
      done == { p \in Pipelines : pc[p] = "done" }
  IN  /\ phase # "parsed" => handle = collectionsToAnonymize
      /\ Len(hidden) = Cardinality(done)
      /\ \A p \in done :
           Cardinality({ i \in 1..Len(hidden) :
                           hidden[i].name = handle[p] })
             = Cardinality({ q \in done : handle[q] = handle[p] })
      /\ \A p \in done :
           \E i \in 1..Len(hidden) :
             hidden[i] = LogHidden(handle[p],
                                   CollectionNamed(db, handle[p]).size)
      /\ Len(progress) = collectionsProcessed
      /\ \A i \in 1..Len(progress) : progress[i] = LogProgress(i, N)
      /\ \A i \in LogIndexes("Data hidden completed for collection") :
           i < Len(log) /\ log[i + 1] = LogProgress(log[i + 1].n, N)
      /\ Cardinality(LogIndexes("Data hidden completed.")) <= 1
      /\ \A i \in LogIndexes("Data hidden completed.") :
           /\ done = Pipelines
           /\ Len(hidden) = N /\ Len(progress) = N
           /\ i = 2 * N + 1
           /\ Len(log) = i + 1 /\ log[i + 1] = LogElapsed
      /\ \A i \in LogIndexes("Time elapsed") : i > 1 /\ log[i - 1] = LogCompleted

\* a run of two pipelines on different collections has reported completion,
\* the second pipeline's message before the first's
C13_Witness ==
  /\ phase = "exited"
  /\ Len(handle) = 2 /\ handle[1] # handle[2]
  /\ Len(log) = 6
  /\ log[1].name = handle[2] /\ log[3].name = handle[1]
  /\ log[2] = LogProgress(1, 2) /\ log[4] = LogProgress(2, 2)
  /\ log[5] = LogCompleted /\ log[6] = LogElapsed
====
